---- MODULE Spec2Model ----
(***************************************************************************)
(* ElGamal encryption over G1 and the Groth-Sahai proof of the linear      *)
(* equation  sum_j y_j*A_j + sum_i b_i*x_i = target  (bls-elgamal).        *)
(*                                                                         *)
(* The groups G1, G2, GT and the scalar field Fr all have the same prime   *)
(* order.  An element of a group is represented by its discrete logarithm  *)
(* with respect to a fixed generator, a residue modulo Q; the pairing      *)
(* e(x, y) is then the product of the two residues, written additively in  *)
(* GT as ark_ec's PairingOutput is.  Q is the order scaled down to the     *)
(* smallest odd prime.  0 is the identity of every group.  The affine and  *)
(* the projective form of a point are the same residue.                    *)
(***************************************************************************)
EXTENDS Integers, Sequences, FiniteSets, TLC

\* order of the scalar field Fr and of G1, G2, GT (scaled down)
Q == 3

\* most ciphertexts held by one ElGamal session
MaxCts == 3

\* most calls of Proof::randomize on one proof
MaxRandomize == 2

Fr == 0 .. (Q - 1)
G1 == 0 .. (Q - 1)
G2 == 0 .. (Q - 1)

\* the lengths of the vectors given to prove and verify
Lens == {0, 1}

\* the random number generators (rng: &mut R) a caller passes: a generator
\* yields start, start + step, start + 2*step, ... modulo Q, read as a scalar
\* or as a group element by the call that draws it
Rngs == [start : Fr, step : Fr]


VARIABLES
    key,    \* ElGamal: the DecryptKey of the session
    cts,    \* ElGamal: the ciphertexts held, each with how it was made
    dec,    \* ElGamal: the last call of decrypt, <<ciphertext, output>>, or <<>>
    gcrs,   \* NIZK: the Crs of the session
    stmt,   \* NIZK: the public statement [a, b, target] that was proved
    prf,    \* NIZK: the Proof held
    pst,    \* NIZK: "none", "proved", "randomized", or "panic" (prove aborted)
    plens,  \* NIZK: the lengths of a, y, x, b given to prove
    nrz,    \* NIZK: how many times the proof was randomized
    ver,    \* NIZK: the last call of verify, [a, b, target, res], or <<>>
    call    \* a single call made outside a session, with its arguments and
            \* what it returned; call.op = "none" when there is none

elgamal_vars == <<key, cts, dec>>
nizk_vars == <<gcrs, stmt, prf, pst, plens, nrz, ver>>
vars == <<key, cts, dec, gcrs, stmt, prf, pst, plens, nrz, ver, call>>

-----------------------------------------------------------------------------
(* group and field arithmetic                                              *)

\* x + y in a group (or in Fr)
GAdd(x, y) == (x + y) % Q

\* x - y in a group
GSub(x, y) == (x + (Q - y)) % Q

\* the scalar multiple x * s of a group element, and the product in Fr
GMul(x, s) == (x * s) % Q

\* -s in Fr
FNeg(s) == (Q - s) % Q

-----------------------------------------------------------------------------
(* ElGamal                                                                 *)

\* DecryptKey::new(generator, x)
DecryptKey_new(generator, x) ==
    LET y == GMul(generator, x)
    IN  [secret |-> x, encrypt_key |-> [generator |-> generator, y |-> y]]

\* encrypt with the public key y taken for the generator in the first point
encrypt_y_for_generator(ek, m, r) ==
    LET a == GMul(ek.y, r)
        b == GAdd(GMul(ek.y, r), m)
    IN  <<a, b>>

\* encrypt with the message left out of the second point: (rG, rY)
encrypt_without_m(ek, m, r) ==
    LET a == GMul(ek.generator, r)
        b == GMul(ek.y, r)
    IN  <<a, b>>

\* EncryptKey::encrypt(m, r): (rG, m + rY)
encrypt(ek, m, r) ==
    LET a == GMul(ek.generator, r)
        b == GAdd(GMul(ek.y, r), m)
    IN  <<a, b>>

\* rerandomize with the generator taken for y in the second point
rerandomize_generator_twice(ek, ct, r) ==
    LET a == GAdd(ct[1], GMul(ek.generator, r))
        b == GAdd(ct[2], GMul(ek.generator, r))
    IN  <<a, b>>

\* EncryptKey::rerandomize(ct, r): (a + rG, b + rY)
rerandomize(ek, ct, r) ==
    LET a == GAdd(ct[1], GMul(ek.generator, r))
        b == GAdd(ct[2], GMul(ek.y, r))
    IN  <<a, b>>

\* decrypt without the negation of the secret: b + a * x
decrypt_no_neg(sk, ct) == GAdd(ct[2], GMul(ct[1], sk.secret))

\* decrypt returning the second point as it is: b
decrypt_b_only(sk, ct) == ct[2]

\* decrypt with the secret taken for 1: b - a
decrypt_secret_one(sk, ct) == GSub(ct[2], ct[1])

\* DecryptKey::decrypt(ct): b + a * (-x)
decrypt(sk, ct) == GAdd(ct[2], GMul(ct[1], FNeg(sk.secret)))

\* Add with rhs.0 taken for rhs.1 in the second point
ct_add_first_twice(lhs, rhs) == <<GAdd(lhs[1], rhs[1]), GAdd(lhs[2], rhs[1])>>

\* impl Add for Ciphertext
ct_add(lhs, rhs) == <<GAdd(lhs[1], rhs[1]), GAdd(lhs[2], rhs[2])>>

-----------------------------------------------------------------------------
(* byte encodings (serde, ark_serialize, bincode)                          *)
(*                                                                         *)
(* A byte is a number in 0 .. 255 and a buffer a sequence of bytes.  The   *)
(* compressed form of a point is SizeG bytes: a byte of flags (compressed, *)
(* and infinity for the identity) and the bytes of the point, here one     *)
(* byte holding its residue.  The compressed form of a scalar is SizeFr    *)
(* bytes, little-endian, here one byte.  A decoder returns                 *)
(* [ok |-> TRUE, v |-> value] or Err.                                      *)

\* serialized_size(Compress::Yes) of a point of G1 (scaled down)
SizeG == 2

\* serialized_size(Compress::Yes) of a scalar of Fr (scaled down)
SizeFr == 1

\* the bytes of the u64 length that bincode writes before a byte buffer
SizeLen == 8

\* the flags of a compressed point: compressed, and compressed + infinity
FlagCompressed == 128
FlagInfinity == 192

\* a decoding failure (serde::de::Error::custom, or bincode's own error)
Err == [ok |-> FALSE, v |-> <<>>]
Ok(v) == [ok |-> TRUE, v |-> v]

\* &bytes[n..]
Drop(bytes, n) == SubSeq(bytes, n + 1, Len(bytes))

\* point.serialize_compressed(&mut bytes): the bytes appended
serialize_compressed_point(p) ==
    IF p = 0 THEN <<FlagInfinity, 0>> ELSE <<FlagCompressed, p>>

\* P::deserialize_compressed(bytes): reads SizeG bytes from the front of
\* bytes and validates the point
deserialize_compressed_point(bytes) ==
    IF Len(bytes) < SizeG THEN Err
    ELSE IF bytes[1] = FlagInfinity /\ bytes[2] = 0 THEN Ok(0)
    ELSE IF bytes[1] = FlagCompressed /\ bytes[2] \in 1 .. (Q - 1) THEN Ok(bytes[2])
    ELSE Err

\* scalar.serialize_compressed(&mut bytes): the bytes appended
serialize_compressed_scalar(x) == <<x>>

\* S::deserialize_compressed(bytes): reads SizeFr bytes from the front of
\* bytes and rejects a value that is not below the modulus
deserialize_compressed_scalar(bytes) ==
    IF Len(bytes) < SizeFr THEN Err
    ELSE IF bytes[1] \in 0 .. (Q - 1) THEN Ok(bytes[1])
    ELSE Err

\* the k low bytes of n, little-endian
RECURSIVE le_bytes(_, _)
le_bytes(n, k) ==
    IF k = 0 THEN <<>> ELSE <<n % 256>> \o le_bytes(n \div 256, k - 1)

\* n as a u64 in little-endian bytes
u64_le(n) == le_bytes(n, SizeLen)

\* a length longer than every buffer; the lengths read are cut off at it
TooLong == 65536

\* the u64 that little-endian bytes hold (cut off at TooLong)
RECURSIVE u64_from_le(_)
u64_from_le(bs) ==
    IF bs = <<>> THEN 0
    ELSE LET n == bs[1] + 256 * u64_from_le(Tail(bs))
         IN  IF n > TooLong THEN TooLong ELSE n

\* serializer.serialize_bytes(&bytes) of bincode: the length, then the bytes
serialize_bytes(bytes) == u64_le(Len(bytes)) \o bytes

\* Vec::<u8>::deserialize(deserializer) of bincode: the length, then that
\* many bytes; bytes after them are left unread
deserialize_vec(input) ==
    IF Len(input) < SizeLen THEN Err
    ELSE LET n == u64_from_le(SubSeq(input, 1, SizeLen))
         IN  IF Len(input) < SizeLen + n THEN Err
             ELSE Ok(SubSeq(input, SizeLen + 1, SizeLen + n))

\* the buffer that Serialize for EncryptKey fills
EncryptKey_bytes(ek) ==
    serialize_compressed_point(ek.generator) \o serialize_compressed_point(ek.y)

\* bincode::serialize(&encrypt_key)
EncryptKey_serialize(ek) == serialize_bytes(EncryptKey_bytes(ek))

\* EncryptKey's decoder reading y from the front of the buffer again,
\* bytes[generator_size..] forgotten
EncryptKey_deserialize_no_skip(input) ==
    LET bytes == deserialize_vec(input)
    IN  IF ~bytes.ok THEN Err
        ELSE LET generator == deserialize_compressed_point(bytes.v)
             IN  IF ~generator.ok THEN Err
                 ELSE LET y == deserialize_compressed_point(bytes.v)
                      IN  IF ~y.ok THEN Err
                          ELSE Ok([generator |-> generator.v, y |-> y.v])

\* bincode::deserialize::<EncryptKey>(input)
EncryptKey_deserialize(input) ==
    LET bytes == deserialize_vec(input)
    IN  IF ~bytes.ok THEN Err
        ELSE LET generator == deserialize_compressed_point(bytes.v)
             IN  IF ~generator.ok THEN Err
                 ELSE LET y == deserialize_compressed_point(Drop(bytes.v, SizeG))
                      IN  IF ~y.ok THEN Err
                          ELSE Ok([generator |-> generator.v, y |-> y.v])

\* DecryptKey's buffer with the EncryptKey written before the secret
DecryptKey_bytes_key_first(sk) ==
    EncryptKey_serialize(sk.encrypt_key) \o serialize_compressed_scalar(sk.secret)

\* the buffer that Serialize for DecryptKey fills (decrypt.rs)
DecryptKey_bytes(sk) ==
    serialize_compressed_scalar(sk.secret) \o EncryptKey_serialize(sk.encrypt_key)

\* bincode::serialize(&decrypt_key) (decrypt.rs)
DecryptKey_serialize(sk) == serialize_bytes(DecryptKey_bytes(sk))

\* bincode::deserialize::<DecryptKey>(input) (decrypt.rs)
DecryptKey_deserialize(input) ==
    LET bytes == deserialize_vec(input)
    IN  IF ~bytes.ok THEN Err
        ELSE LET secret == deserialize_compressed_scalar(bytes.v)
             IN  IF ~secret.ok THEN Err
                 ELSE LET enc_key == EncryptKey_deserialize(Drop(bytes.v, SizeFr))
                      IN  IF ~enc_key.ok THEN Err
                          ELSE Ok([secret |-> secret.v, encrypt_key |-> enc_key.v])

\* algorithm::DecryptKey::new(generator, x): the key also keeps the generator
algorithm_DecryptKey_new(generator, x) ==
    LET y == GMul(generator, x)
    IN  [generator |-> generator, secret |-> x,
         encrypt_key |-> [generator |-> generator, y |-> y]]

\* the buffer that Serialize for algorithm::DecryptKey fills
algorithm_DecryptKey_bytes(sk) ==
    serialize_compressed_point(sk.generator)
        \o serialize_compressed_scalar(sk.secret)
        \o EncryptKey_serialize(sk.encrypt_key)

\* bincode::serialize(&decrypt_key) (algorithm.rs)
algorithm_DecryptKey_serialize(sk) == serialize_bytes(algorithm_DecryptKey_bytes(sk))

\* bincode::deserialize::<algorithm::DecryptKey>(input)
algorithm_DecryptKey_deserialize(input) ==
    LET bytes == deserialize_vec(input)
    IN  IF ~bytes.ok THEN Err
        ELSE LET generator == deserialize_compressed_point(bytes.v)
             IN  IF ~generator.ok THEN Err
                 ELSE LET secret == deserialize_compressed_scalar(Drop(bytes.v, SizeG))
                      IN  IF ~secret.ok THEN Err
                          ELSE LET enc_key == EncryptKey_deserialize(
                                                  Drop(bytes.v, SizeG + SizeFr))
                               IN  IF ~enc_key.ok THEN Err
                                   ELSE Ok([generator |-> generator.v,
                                            secret |-> secret.v,
                                            encrypt_key |-> enc_key.v])

\* the buffer that Serialize for Ciphertext fills
Ciphertext_bytes(ct) ==
    serialize_compressed_point(ct[1]) \o serialize_compressed_point(ct[2])

\* bincode::serialize(&ct)
Ciphertext_serialize(ct) == serialize_bytes(Ciphertext_bytes(ct))

\* bincode::deserialize::<Ciphertext>(input)
Ciphertext_deserialize(input) ==
    LET bytes == deserialize_vec(input)
    IN  IF ~bytes.ok THEN Err
        ELSE LET a == deserialize_compressed_point(bytes.v)
             IN  IF ~a.ok THEN Err
                 ELSE LET b == deserialize_compressed_point(Drop(bytes.v, SizeG))
                      IN  IF ~b.ok THEN Err
                          ELSE Ok(<<a.v, b.v>>)

-----------------------------------------------------------------------------
(* matrices (ndarray::Array2)                                              *)
(*                                                                         *)
(* A matrix is [nr, nc, a]: its shape and its rows, a[i][j] for            *)
(* 1 <= i <= nr and 1 <= j <= nc (the source counts from 0).  PANIC is the *)
(* outcome of an operation whose assertion or unwrap fails; an operation   *)
(* given PANIC yields PANIC, as the panic unwinds through its callers.     *)

PANIC == [nr |-> -1, nc |-> -1, a |-> <<>>]

Mat(nr, nc, F(_, _)) ==
    [nr |-> nr, nc |-> nc, a |-> [i \in 1 .. nr |-> [j \in 1 .. nc |-> F(i, j)]]]

\* Array2::from_shape_vec((nr, nc), v).unwrap()
from_shape_vec(nr, nc, v) ==
    IF Len(v) = nr * nc
    THEN Mat(nr, nc, LAMBDA i, j : v[(i - 1) * nc + j])
    ELSE PANIC

\* the value of the k-th draw from rng, k = 0, 1, ...
rand(rng, k) == (rng.start + k * rng.step) % Q

\* Array2::from_shape_fn((nr, nc), |_| rand(rng)), in row-major order, when
\* k0 values were drawn from rng before
from_shape_fn(nr, nc, rng, k0) ==
    Mat(nr, nc, LAMBDA i, j : rand(rng, k0 + (i - 1) * nc + (j - 1)))

\* Array2::from_elem((nr, nc), e)
from_elem(nr, nc, e) == Mat(nr, nc, LAMBDA i, j : e)

\* arr2(&[[e1, e2]])
arr2_row(e1, e2) == Mat(1, 2, LAMBDA i, j : IF j = 1 THEN e1 ELSE e2)

\* ArrayBase::reversed_axes: the transpose
reversed_axes(M) ==
    IF M = PANIC THEN PANIC ELSE Mat(M.nc, M.nr, LAMBDA i, j : M.a[j][i])

\* M + N of two arrays of one shape, entry by entry
mat_add(M, N) ==
    IF M = PANIC \/ N = PANIC \/ M.nr # N.nr \/ M.nc # N.nc
    THEN PANIC
    ELSE Mat(M.nr, M.nc, LAMBDA i, j : GAdd(M.a[i][j], N.a[i][j]))

\* M - N of two arrays of one shape, entry by entry
mat_sub(M, N) ==
    IF M = PANIC \/ N = PANIC \/ M.nr # N.nr \/ M.nc # N.nc
    THEN PANIC
    ELSE Mat(M.nr, M.nc, LAMBDA i, j : GSub(M.a[i][j], N.a[i][j]))

\* the loop  sum = zero; for k { sum += term[k] }
RECURSIVE SumSeq(_)
SumSeq(terms) ==
    IF terms = <<>> THEN 0 ELSE GAdd(terms[1], SumSeq(Tail(terms)))

\* the bilinear map E::pairing(x, y), x in G1 and y in G2
pairing(x, y) == (x * y) % Q

\* scalar_matmul_g1(a, b): a of scalars, b of G1 elements
scalar_matmul_g1(a, b) ==
    IF a = PANIC \/ b = PANIC \/ ~(a.nc = b.nr)
    THEN PANIC
    ELSE Mat(a.nr, b.nc,
             LAMBDA i, j : SumSeq([k \in 1 .. a.nc |-> GMul(b.a[k][j], a.a[i][k])]))

\* scalar_matmul_g2(a, b): a of scalars, b of G2 elements
scalar_matmul_g2(a, b) ==
    IF a = PANIC \/ b = PANIC \/ ~(a.nc = b.nr)
    THEN PANIC
    ELSE Mat(a.nr, b.nc,
             LAMBDA i, j : SumSeq([k \in 1 .. a.nc |-> GMul(b.a[k][j], a.a[i][k])]))

\* matmul without its assertion n_prime == m_prime, summing over the k that
\* both matrices have
matmul_unchecked(a, b) ==
    IF a = PANIC \/ b = PANIC
    THEN PANIC
    ELSE Mat(a.nr, b.nc,
             LAMBDA i, j : SumSeq([k \in 1 .. (IF a.nc < b.nr THEN a.nc ELSE b.nr)
                                      |-> pairing(a.a[i][k], b.a[k][j])]))

\* matmul(a, b): a of G1 elements, b of G2 elements, the result in GT
matmul(a, b) ==
    IF a = PANIC \/ b = PANIC \/ ~(a.nc = b.nr)
    THEN PANIC
    ELSE Mat(a.nr, b.nc,
             LAMBDA i, j : SumSeq([k \in 1 .. a.nc |-> pairing(a.a[i][k], b.a[k][j])]))

-----------------------------------------------------------------------------
(* Groth-Sahai: the common reference string                                *)

\* Crs::rand(rng)
Crs_rand(rng) ==
    LET p1 == rand(rng, 0)
        p2 == rand(rng, 1)
        a1 == rand(rng, 2)
        t1 == rand(rng, 3)
        a2 == rand(rng, 4)
        t2 == rand(rng, 5)
    IN
    [p1 |-> p1,
     p2 |-> p2,
     u  |-> [nr |-> 2, nc |-> 2,
             a  |-> << <<p1, GMul(p1, t1)>>,
                       <<GMul(p1, a1), GMul(p1, GMul(a1, t1))>> >>],
     v  |-> [nr |-> 2, nc |-> 2,
             a  |-> << <<p2, GMul(p2, t2)>>,
                       <<GMul(p2, a2), GMul(p2, GMul(a2, t2))>> >>]]

\* Crs::v1: the first column of v, as a row
v1(crs) == arr2_row(crs.v.a[1][1], crs.v.a[2][1])

\* l1(a) = [0 | a], a of shape (m, 1)
l1(a) ==
    IF a = PANIC THEN PANIC
    ELSE Mat(a.nr, 2, LAMBDA i, j : IF j = 1 THEN 0 ELSE a.a[i][1])

\* lz2 with v = [v[0,1] | v[1,1]], the + p2 forgotten
lz2_without_p2(crs, z) ==
    IF z = PANIC THEN PANIC
    ELSE Mat(z.nr, 2,
             LAMBDA i, j : GMul(IF j = 1 THEN crs.v.a[1][2] ELSE crs.v.a[2][2],
                                z.a[i][1]))

\* lz2(crs, z) = z v with v = [v[0,1] | v[1,1] + p2], z of shape (m, 1)
lz2(crs, z) ==
    IF z = PANIC THEN PANIC
    ELSE Mat(z.nr, 2,
             LAMBDA i, j : GMul(IF j = 1 THEN crs.v.a[1][2]
                                         ELSE GAdd(crs.v.a[2][2], crs.p2),
                                z.a[i][1]))

\* f(x, y): the 2 x 2 matrix of the pairings e(x_i, y_j) of two rows
f(x, y) ==
    IF x = PANIC \/ y = PANIC THEN PANIC
    ELSE Mat(2, 2, LAMBDA i, j : pairing(x.a[1][i], y.a[1][j]))

\* l_t(crs, target)
l_t(crs, target) ==
    LET x == arr2_row(0, target)
        y == lz2(crs, from_elem(1, 1, 1))
    IN  f(x, y)

-----------------------------------------------------------------------------
(* Groth-Sahai: commitments, proof, verification                           *)

\* commit_x: c = l(x) + R u
commit_x(crs, r, x) == mat_add(l1(x), scalar_matmul_g1(r, crs.u))

\* randomize_com_x returning c as it is
randomize_com_x_unchanged(crs, r, c) == c

\* randomize_com_x: c' = c + R u
randomize_com_x(crs, r, c) == mat_add(c, scalar_matmul_g1(r, crs.u))

\* commit_y: d = l(y) + s v1
commit_y(crs, s, y) == mat_add(lz2(crs, y), scalar_matmul_g2(s, v1(crs)))

\* randomize_com_y with d' = d - s v1
randomize_com_y_minus(crs, s, d) == mat_sub(d, scalar_matmul_g2(s, v1(crs)))

\* randomize_com_y: d' = d + s v1
randomize_com_y(crs, s, d) == mat_add(d, scalar_matmul_g2(s, v1(crs)))

\* proof returning only the first row of phi
proof_pi_first_row(crs, r, s, t, a, b) ==
    LET phi   == mat_sub(scalar_matmul_g2(reversed_axes(r), lz2(crs, b)),
                         scalar_matmul_g2(reversed_axes(t), v1(crs)))
        theta == mat_add(scalar_matmul_g1(reversed_axes(s), l1(a)),
                         scalar_matmul_g1(t, crs.u))
    IN  <<IF phi = PANIC THEN PANIC ELSE arr2_row(phi.a[1][1], phi.a[1][2]), theta>>

\* proof with phi = R^T l(b) + T^T v1
proof_plus(crs, r, s, t, a, b) ==
    LET phi   == mat_add(scalar_matmul_g2(reversed_axes(r), lz2(crs, b)),
                         scalar_matmul_g2(reversed_axes(t), v1(crs)))
        theta == mat_add(scalar_matmul_g1(reversed_axes(s), l1(a)),
                         scalar_matmul_g1(t, crs.u))
    IN  <<phi, theta>>

\* proof: (phi, theta), phi = R^T l(b) - T^T v1, theta = s^T l(a) + T u
proof(crs, r, s, t, a, b) ==
    LET phi   == mat_sub(scalar_matmul_g2(reversed_axes(r), lz2(crs, b)),
                         scalar_matmul_g2(reversed_axes(t), v1(crs)))
        theta == mat_add(scalar_matmul_g1(reversed_axes(s), l1(a)),
                         scalar_matmul_g1(t, crs.u))
    IN  <<phi, theta>>

\* randomize_proof with theta' = theta + s^T l(a), the + T u forgotten
randomize_proof_without_tu(crs, r, s, t, a, b, pi, theta) ==
    LET phi == mat_sub(mat_add(pi, scalar_matmul_g2(reversed_axes(r), lz2(crs, b))),
                       scalar_matmul_g2(reversed_axes(t), v1(crs)))
        th  == mat_add(theta, scalar_matmul_g1(reversed_axes(s), l1(a)))
    IN  <<phi, th>>

\* randomize_proof: phi' = phi + R^T l(b) - T^T v1, theta' = theta + s^T l(a) + T u
randomize_proof(crs, r, s, t, a, b, pi, theta) ==
    LET phi == mat_sub(mat_add(pi, scalar_matmul_g2(reversed_axes(r), lz2(crs, b))),
                       scalar_matmul_g2(reversed_axes(t), v1(crs)))
        th  == mat_add(mat_add(theta, scalar_matmul_g1(reversed_axes(s), l1(a))),
                       scalar_matmul_g1(t, crs.u))
    IN  <<phi, th>>

\* what a call that panicked leaves in place of a Proof
NoProof == [c |-> PANIC, d |-> PANIC, pi |-> PANIC, theta |-> PANIC]

\* prove(rng, crs, a, y, x, b)
prove(rng, crs, a, y, x, b) ==
    LET m  == Len(x)
        n  == Len(y)
        r  == from_shape_fn(m, 2, rng, 0)
        s  == from_shape_fn(n, 1, rng, 2 * m)
        t  == from_shape_fn(1, 2, rng, 2 * m + n)
        am == from_shape_vec(n, 1, a)
        ym == from_shape_vec(n, 1, y)
        xm == from_shape_vec(m, 1, x)
        bm == from_shape_vec(m, 1, b)
        c  == commit_x(crs, r, xm)
        d  == commit_y(crs, s, ym)
        pt == proof(crs, r, s, t, am, bm)
    IN  IF ~(m = Len(a)) \/ ~(n = Len(b)) THEN NoProof
        ELSE IF PANIC \in {am, ym, xm, bm} THEN NoProof
        ELSE IF PANIC \in {c, d, pt[1], pt[2]} THEN NoProof
        ELSE [c |-> c, d |-> d, pi |-> pt[1], theta |-> pt[2]]

\* Proof::randomize(rng, crs, a, b)
randomize(p, rng, crs, a, b) ==
    LET m     == p.c.nr
        n     == p.d.nr
        r     == from_shape_fn(m, 2, rng, 0)
        s     == from_shape_fn(n, 1, rng, 2 * m)
        t     == from_shape_fn(1, 2, rng, 2 * m + n)
        new_c == randomize_com_x(crs, r, p.c)
        new_d == randomize_com_y(crs, s, p.d)
        am    == from_shape_vec(n, 1, a)
        bm    == from_shape_vec(m, 1, b)
        pt    == randomize_proof(crs, r, s, t, am, bm, p.pi, p.theta)
    IN  IF PANIC \in {new_c, new_d, am, bm, pt[1], pt[2]} THEN NoProof
        ELSE [c |-> new_c, d |-> new_d, pi |-> pt[1], theta |-> pt[2]]

\* verify(crs, a, b, target, proof): "true", "false", or "panic" when it aborts
verify(crs, a, b, target, p) ==
    LET m   == Len(b)
        n   == Len(a)
        am  == from_shape_vec(n, 1, a)
        bm  == from_shape_vec(m, 1, b)
        lhs == mat_add(matmul(reversed_axes(l1(am)), p.d),
                       matmul(reversed_axes(p.c), lz2(crs, bm)))
        rhs == mat_add(mat_add(l_t(crs, target),
                               matmul(reversed_axes(crs.u), p.pi)),
                       f(p.theta, v1(crs)))
    IN  IF lhs = PANIC \/ rhs = PANIC THEN "panic"
        ELSE IF lhs = rhs THEN "true" ELSE "false"

-----------------------------------------------------------------------------
(* sessions                                                                *)

\* no call was made outside a session
NoCall == [op |-> "none"]

\* no NIZK call was made
NizkIdle ==
    /\ gcrs = <<>>
    /\ stmt = <<>>
    /\ prf = NoProof
    /\ pst = "none"
    /\ plens = <<>>
    /\ nrz = 0
    /\ ver = <<>>

\* no ElGamal call was made
ElGamalIdle ==
    /\ key = <<>>
    /\ cts = {}
    /\ dec = <<>>

(* A session: one key pair, and the ciphertexts a caller makes with it.    *)
(* Each element of cts records the ciphertext, the operation that made it  *)
(* (op), the elements it was made from (from, in the order of the          *)
(* operands), and for book-keeping the sum of the plaintexts encrypted     *)
(* into it (plain); plain is meaningful when known is TRUE, that is,       *)
(* unless the ciphertext descends from one the caller built from two       *)
(* arbitrary points.                                                       *)

ElGamalInit ==
    /\ key \in {DecryptKey_new(g, x) : g \in G1, x \in Fr}
    /\ cts = {}
    /\ dec = <<>>
    /\ NizkIdle
    /\ call = NoCall

\* let ct = pk.encrypt(m, r)
Encrypt(m, r) ==
    /\ Cardinality(cts) < MaxCts
    /\ cts' = cts \cup {[ct |-> encrypt(key.encrypt_key, m, r), op |-> "encrypt",
                         from |-> <<>>, known |-> TRUE, plain |-> m]}
    /\ UNCHANGED <<key, dec>>
    /\ UNCHANGED nizk_vars
    /\ UNCHANGED call

\* let ct = Ciphertext(c1, c2), built by the caller from any two points
Given(c1, c2) ==
    /\ Cardinality(cts) < MaxCts
    /\ cts' = cts \cup {[ct |-> <<c1, c2>>, op |-> "given",
                         from |-> <<>>, known |-> FALSE, plain |-> 0]}
    /\ UNCHANGED <<key, dec>>
    /\ UNCHANGED nizk_vars
    /\ UNCHANGED call

\* let new_ct = pk.rerandomize(c, r)
Rerandomize(c, r) ==
    /\ Cardinality(cts) < MaxCts
    /\ c \in cts
    /\ cts' = cts \cup {[ct |-> rerandomize(key.encrypt_key, c.ct, r),
                         op |-> "rerandomize", from |-> <<c>>,
                         known |-> c.known, plain |-> c.plain]}
    /\ UNCHANGED <<key, dec>>
    /\ UNCHANGED nizk_vars
    /\ UNCHANGED call

\* let ct3 = &lhs + &rhs
AddCts(lhs, rhs) ==
    /\ Cardinality(cts) < MaxCts
    /\ lhs \in cts
    /\ rhs \in cts
    /\ cts' = cts \cup {[ct |-> ct_add(lhs.ct, rhs.ct), op |-> "add",
                         from |-> <<lhs, rhs>>,
                         known |-> (lhs.known /\ rhs.known),
                         plain |-> GAdd(lhs.plain, rhs.plain)]}
    /\ UNCHANGED <<key, dec>>
    /\ UNCHANGED nizk_vars
    /\ UNCHANGED call

\* let decrypted_m = sk.decrypt(c)
Decrypt(c) ==
    /\ c \in cts
    /\ dec' = <<c, decrypt(key, c.ct)>>
    /\ UNCHANGED <<key, cts>>
    /\ UNCHANGED nizk_vars
    /\ UNCHANGED call

ElGamalNext ==
    \/ \E m \in G1, r \in Fr : Encrypt(m, r)
    \/ \E c1 \in G1, c2 \in G1 : Given(c1, c2)
    \/ \E c \in cts, r \in Fr : Rerandomize(c, r)
    \/ \E lhs \in cts, rhs \in cts : AddCts(lhs, rhs)
    \/ \E c \in cts : Decrypt(c)

SpecElGamal == ElGamalInit /\ [][ElGamalNext]_vars


(* A NIZK session: a Crs from Crs::rand, one call of prove, then calls of  *)
(* Proof::randomize on the proof held, then one call of verify.  prove and *)
(* randomize never see the target; stmt.target is the value of             *)
(* sum_j y_j*A_j + sum_i b_i*x_i for the witnesses given to prove.         *)

\* the vectors of length n over S
Vecs(S, n) == [1 .. n -> S]

\* the vectors over S of a length in Lens
VecsUpTo(S) == UNION {Vecs(S, n) : n \in Lens}

\* sum_j y_j*A_j + sum_i b_i*x_i
Target(a, y, x, b) ==
    GAdd(SumSeq([j \in 1 .. Len(y) |-> GMul(a[j], y[j])]),
         SumSeq([i \in 1 .. Len(b) |-> GMul(x[i], b[i])]))

NizkInit ==
    /\ gcrs \in {Crs_rand(rng) : rng \in Rngs}
    /\ stmt = <<>>
    /\ prf = NoProof
    /\ pst = "none"
    /\ plens = <<>>
    /\ nrz = 0
    /\ ver = <<>>
    /\ ElGamalIdle
    /\ call = NoCall

\* let proof = prove(rng, &crs, a, y, x, b)
Prove(rng, a, y, x, b) ==
    /\ pst = "none"
    /\ LET p == prove(rng, gcrs, a, y, x, b)
       IN  /\ prf' = p
           /\ pst' = IF p = NoProof THEN "panic" ELSE "proved"
           /\ stmt' = IF p = NoProof THEN <<>>
                      ELSE [a |-> a, b |-> b, target |-> Target(a, y, x, b)]
    /\ plens' = <<Len(a), Len(y), Len(x), Len(b)>>
    /\ UNCHANGED <<gcrs, nrz, ver>>
    /\ UNCHANGED elgamal_vars
    /\ UNCHANGED call

\* let new_proof = proof.randomize(rng, &crs, a, b)
Randomize(rng) ==
    /\ pst \in {"proved", "randomized"}
    /\ ver = <<>>
    /\ nrz < MaxRandomize
    /\ prf' = randomize(prf, rng, gcrs, stmt.a, stmt.b)
    /\ pst' = "randomized"
    /\ nrz' = nrz + 1
    /\ UNCHANGED <<gcrs, stmt, plens, ver>>
    /\ UNCHANGED elgamal_vars
    /\ UNCHANGED call

\* verify(&crs, a, b, target, &proof), with at most one of a, b, target
\* different from the statement that was proved
Verify(a, b, target) ==
    /\ pst \in {"proved", "randomized"}
    /\ ver = <<>>
    /\ \/ b = stmt.b /\ target = stmt.target
       \/ a = stmt.a /\ target = stmt.target
       \/ a = stmt.a /\ b = stmt.b
    /\ ver' = [a |-> a, b |-> b, target |-> target,
               res |-> verify(gcrs, a, b, target, prf)]
    /\ UNCHANGED <<gcrs, stmt, prf, pst, plens, nrz>>
    /\ UNCHANGED elgamal_vars
    /\ UNCHANGED call

NizkNext ==
    \/ \E rng \in Rngs, a \in VecsUpTo(G1), y \in VecsUpTo(Fr),
          x \in VecsUpTo(G1), b \in VecsUpTo(Fr) : Prove(rng, a, y, x, b)
    \/ \E rng \in Rngs : Randomize(rng)
    \/ \E a \in VecsUpTo(G1), b \in VecsUpTo(Fr), target \in G1 :
          Verify(a, b, target)

SpecNizk == NizkInit /\ [][NizkNext]_vars

-----------------------------------------------------------------------------
(* Calls made outside a session.  Encoding and decoding: a value is        *)
(* serialized with bincode and the bytes are deserialized, or bytes that   *)
(* come from elsewhere are deserialized.                                   *)

CallsInit ==
    /\ ElGamalIdle
    /\ NizkIdle
    /\ call = NoCall

\* the types that implement Serialize and Deserialize
Kinds == {"EncryptKey", "DecryptKey", "algorithm::DecryptKey", "Ciphertext"}

\* the values of a type that the public operations produce
Values(kind) ==
    CASE kind = "EncryptKey" ->
            {DecryptKey_new(g, x).encrypt_key : g \in G1, x \in Fr}
      [] kind = "DecryptKey" ->
            {DecryptKey_new(g, x) : g \in G1, x \in Fr}
      [] kind = "algorithm::DecryptKey" ->
            {algorithm_DecryptKey_new(g, x) : g \in G1, x \in Fr}
      [] kind = "Ciphertext" ->
            {encrypt(DecryptKey_new(g, x).encrypt_key, m, r) :
                g \in G1, x \in Fr, m \in G1, r \in Fr}

\* bincode::serialize(&v) for a value of the type
serialize(kind, v) ==
    CASE kind = "EncryptKey" -> EncryptKey_serialize(v)
      [] kind = "DecryptKey" -> DecryptKey_serialize(v)
      [] kind = "algorithm::DecryptKey" -> algorithm_DecryptKey_serialize(v)
      [] kind = "Ciphertext" -> Ciphertext_serialize(v)

\* bincode::deserialize(input) into the type
deserialize(kind, input) ==
    CASE kind = "EncryptKey" -> EncryptKey_deserialize(input)
      [] kind = "DecryptKey" -> DecryptKey_deserialize(input)
      [] kind = "algorithm::DecryptKey" -> algorithm_DecryptKey_deserialize(input)
      [] kind = "Ciphertext" -> Ciphertext_deserialize(input)

\* bytes laid out as an encoding of the type, holding any scalar and points
WellFormed(kind) ==
    CASE kind = "EncryptKey" ->
            {EncryptKey_serialize([generator |-> g, y |-> y]) : g \in G1, y \in G1}
      [] kind = "DecryptKey" ->
            {DecryptKey_serialize([secret |-> x,
                                   encrypt_key |-> [generator |-> g, y |-> y]]) :
                x \in Fr, g \in G1, y \in G1}
      [] kind = "algorithm::DecryptKey" ->
            {algorithm_DecryptKey_serialize(
                 [generator |-> g0, secret |-> x,
                  encrypt_key |-> [generator |-> g, y |-> y]]) :
                g0 \in G1, x \in Fr, g \in G1, y \in G1}
      [] kind = "Ciphertext" ->
            {Ciphertext_serialize(<<a, b>>) : a \in G1, b \in G1}

\* the byte sequences given to a decoder: well-formed ones, truncated ones,
\* ones with a byte overwritten, and ones with a byte added at the end
Inputs(kind) ==
    LET wf == WellFormed(kind)
    IN  wf
        \cup UNION {{SubSeq(bs, 1, k) : k \in 0 .. (Len(bs) - 1)} : bs \in wf}
        \cup UNION {{[bs EXCEPT ![k] = 255] : k \in 1 .. Len(bs)} : bs \in wf}
        \cup {bs \o <<0>> : bs \in wf}

\* let serialized = bincode::serialize(&v).unwrap()
Serialize(kind, v) ==
    /\ call.op = "none"
    /\ call' = [op |-> "serialized", kind |-> kind, sent |-> TRUE, v |-> v,
                bytes |-> serialize(kind, v), res |-> Err]
    /\ UNCHANGED <<elgamal_vars, nizk_vars>>

\* bytes arrive that this program did not serialize
Receive(kind, input) ==
    /\ call.op = "none"
    /\ call' = [op |-> "received", kind |-> kind, sent |-> FALSE, v |-> <<>>,
                bytes |-> input, res |-> Err]
    /\ UNCHANGED <<elgamal_vars, nizk_vars>>

\* let deserialized = bincode::deserialize(&serialized)
Deserialize ==
    /\ call.op \in {"serialized", "received"}
    /\ call' = [op |-> "deserialized", kind |-> call.kind, sent |-> call.sent,
                v |-> call.v, bytes |-> call.bytes,
                res |-> deserialize(call.kind, call.bytes)]
    /\ UNCHANGED <<elgamal_vars, nizk_vars>>

\* let ct = DecryptKey::new(g, x).encrypt_key().encrypt(m, r), and then
\* DecryptKey::new(g, x2).decrypt(ct)
DecryptWithOtherKey(g, x, x2, m, r) ==
    /\ call.op = "none"
    /\ LET ct == encrypt(DecryptKey_new(g, x).encrypt_key, m, r)
       IN  call' = [op |-> "decrypt_other", g |-> g, x |-> x, x2 |-> x2,
                    m |-> m, r |-> r, ct |-> ct,
                    res |-> decrypt(DecryptKey_new(g, x2), ct)]
    /\ UNCHANGED <<elgamal_vars, nizk_vars>>

\* let ct1 = pk.encrypt(m1, r1); let ct2 = pk.encrypt(m2, r2), and both
\* decrypted with sk
EncryptTwice(g, x, m1, r1, m2, r2) ==
    /\ call.op = "none"
    /\ LET sk  == DecryptKey_new(g, x)
           ct1 == encrypt(sk.encrypt_key, m1, r1)
           ct2 == encrypt(sk.encrypt_key, m2, r2)
       IN  call' = [op |-> "encrypt_twice", g |-> g, x |-> x,
                    m1 |-> m1, r1 |-> r1, m2 |-> m2, r2 |-> r2,
                    ct1 |-> ct1, ct2 |-> ct2,
                    dec1 |-> decrypt(sk, ct1), dec2 |-> decrypt(sk, ct2)]
    /\ UNCHANGED <<elgamal_vars, nizk_vars>>

\* let Ciphertext(c1, c2) = pk.encrypt(m, r), and then
\* sk.decrypt(Ciphertext(c1 + d1, c2 + d2))
DecryptModified(g, x, m, r, d1, d2) ==
    /\ call.op = "none"
    /\ LET sk == DecryptKey_new(g, x)
           ct == encrypt(sk.encrypt_key, m, r)
           modified_ct == <<GAdd(ct[1], d1), GAdd(ct[2], d2)>>
       IN  call' = [op |-> "decrypt_modified", g |-> g, x |-> x, m |-> m,
                    r |-> r, d1 |-> d1, d2 |-> d2, ct |-> ct,
                    modified_ct |-> modified_ct,
                    res |-> decrypt(sk, modified_ct)]
    /\ UNCHANGED <<elgamal_vars, nizk_vars>>

CallsNext ==
    \/ call.op = "none" /\ \E kind \in Kinds : \E v \in Values(kind) : Serialize(kind, v)
    \/ call.op = "none" /\ \E kind \in Kinds : \E input \in Inputs(kind) : Receive(kind, input)
    \/ Deserialize
    \/ \E g \in G1, x \in Fr, x2 \in Fr, m \in G1, r \in Fr :
          DecryptWithOtherKey(g, x, x2, m, r)
    \/ \E g \in G1, x \in Fr, m1 \in G1, r1 \in Fr, m2 \in G1, r2 \in Fr :
          EncryptTwice(g, x, m1, r1, m2, r2)
    \/ \E g \in G1, x \in Fr, m \in G1, r \in Fr, d1 \in G1, d2 \in G1 :
          DecryptModified(g, x, m, r, d1, d2)

SpecCalls == CallsInit /\ [][CallsNext]_vars

-----------------------------------------------------------------------------
(* NIZK calls outside a session: a Crs from Crs::rand, a call of prove     *)
(* that returns a Proof, and a call of Proof::randomize on it.  The call   *)
(* is kept with its arguments: the witnesses y and x, the scalars r, s, t  *)
(* that prove drew and the scalars r2, s2, t2 that randomize drew.         *)

\* let crs = Crs::rand(crng)
NizkCallsInit ==
    /\ ElGamalIdle
    /\ NizkIdle
    /\ call \in {[op |-> "crs", crs |-> Crs_rand(crng)] : crng \in Rngs}

\* let proof = prove(rng, &crs, a, y, x, b)
ProveCall(rng, a, y, x, b) ==
    /\ call.op = "crs"
    /\ LET p == prove(rng, call.crs, a, y, x, b)
           m == Len(x)
           n == Len(y)
       IN  /\ p # NoProof
           /\ call' = [op |-> "proved", crs |-> call.crs,
                        a |-> a, y |-> y, x |-> x, b |-> b, rng |-> rng,
                        r |-> from_shape_fn(m, 2, rng, 0),
                        s |-> from_shape_fn(n, 1, rng, 2 * m),
                        t |-> from_shape_fn(1, 2, rng, 2 * m + n),
                        p |-> p]
    /\ UNCHANGED <<elgamal_vars, nizk_vars>>

\* let new_proof = proof.randomize(rng2, &crs, a, b)
RandomizeCall(rng2) ==
    /\ call.op = "proved"
    /\ LET m == call.p.c.nr
           n == call.p.d.nr
       IN  call' = [op |-> "randomize", crs |-> call.crs,
                    a |-> call.a, y |-> call.y, x |-> call.x, b |-> call.b,
                    rng |-> call.rng, r |-> call.r, s |-> call.s, t |-> call.t,
                    p |-> call.p, rng2 |-> rng2,
                    r2 |-> from_shape_fn(m, 2, rng2, 0),
                    s2 |-> from_shape_fn(n, 1, rng2, 2 * m),
                    t2 |-> from_shape_fn(1, 2, rng2, 2 * m + n),
                    q |-> randomize(call.p, rng2, call.crs, call.a, call.b)]
    /\ UNCHANGED <<elgamal_vars, nizk_vars>>

NizkCallsNext ==
    \/ call.op = "crs" /\ \E rng \in Rngs, a \in VecsUpTo(G1), y \in VecsUpTo(Fr),
                              x \in VecsUpTo(G1), b \in VecsUpTo(Fr) :
                              ProveCall(rng, a, y, x, b)
    \/ \E rng2 \in Rngs : RandomizeCall(rng2)

SpecNizkCalls == NizkCallsInit /\ [][NizkCallsNext]_vars

-----------------------------------------------------------------------------
(* ElGamal: properties                                                     *)

\* the ciphertext the last call of decrypt was given
Decrypted == dec[1]

\* C1: decrypting a ciphertext that encrypt made from m (with any
\* randomness, under any key pair from DecryptKey::new) returns m.
C1_RoundTrip ==
    (dec # <<>> /\ Decrypted.op = "encrypt") => dec[2] = Decrypted.plain

\* C1 happens: a non-identity message encrypted with non-zero randomness
\* under a non-zero secret and a non-identity generator was decrypted.
C1_Witness ==
    /\ dec # <<>>
    /\ Decrypted.op = "encrypt"
    /\ Decrypted.plain # 0
    /\ Decrypted.ct[1] # 0
    /\ key.secret # 0
    /\ dec[2] = Decrypted.plain

\* C8: a sum of two ciphertexts decrypts to the sum of what the two decrypt
\* to; the sum of two encryptions decrypts to the sum of the two messages.
C8_Homomorphism ==
    \A c \in cts :
        c.op = "add" =>
            LET lhs == c.from[1]
                rhs == c.from[2]
            IN  /\ decrypt(key, c.ct)
                      = GAdd(decrypt(key, lhs.ct), decrypt(key, rhs.ct))
                /\ (lhs.op = "encrypt" /\ rhs.op = "encrypt")
                      => decrypt(key, c.ct) = GAdd(lhs.plain, rhs.plain)

\* C8 happens: the sum of two encryptions of different non-identity messages,
\* made under a non-zero secret, was decrypted and gave the sum of the two.
C8_Witness ==
    /\ dec # <<>>
    /\ Decrypted.op = "add"
    /\ key.secret # 0
    /\ LET lhs == Decrypted.from[1]
           rhs == Decrypted.from[2]
       IN  /\ lhs.op = "encrypt" /\ rhs.op = "encrypt"
           /\ lhs.plain # 0 /\ rhs.plain # 0 /\ lhs.plain # rhs.plain
           /\ lhs.ct[1] # 0 /\ rhs.ct[1] # 0
           /\ dec[2] = GAdd(lhs.plain, rhs.plain)

\* C9: a rerandomized ciphertext decrypts to what the ciphertext it was made
\* from decrypts to, whatever that ciphertext and the scalar are.
C9_RerandomizeInvariance ==
    \A c \in cts :
        c.op = "rerandomize" =>
            decrypt(key, c.ct) = decrypt(key, c.from[1].ct)

\* C9 happens: a ciphertext was rerandomized into a different one under a
\* key whose secret is neither 0 nor 1, and the new one was decrypted.
C9_Witness ==
    /\ dec # <<>>
    /\ Decrypted.op = "rerandomize"
    /\ Decrypted.ct # Decrypted.from[1].ct
    /\ key.secret \notin {0, 1}
    /\ dec[2] = decrypt(key, Decrypted.from[1].ct)

\* C10: every ciphertext made by encrypt, rerandomize and addition from
\* encryptions under the key decrypts to the sum of the plaintexts that were
\* combined into it.
C10_DecryptsToPlaintextSum ==
    \A c \in cts :
        c.known => decrypt(key, c.ct) = c.plain

\* C10 happens: the sum of an encryption and of a rerandomized encryption
\* was decrypted and gave the sum of the plaintexts.
C10_Witness ==
    /\ dec # <<>>
    /\ Decrypted.op = "add"
    /\ Decrypted.known
    /\ Decrypted.from[1].op = "encrypt"
    /\ Decrypted.from[2].op = "rerandomize"
    /\ Decrypted.from[2].ct # Decrypted.from[2].from[1].ct
    /\ Decrypted.plain # 0
    /\ key.secret # 0
    /\ dec[2] = Decrypted.plain

-----------------------------------------------------------------------------
(* NIZK: properties                                                        *)

\* verify was called with the statement that was proved
VerifiedAsProved ==
    /\ ver # <<>>
    /\ ver.a = stmt.a
    /\ ver.b = stmt.b
    /\ ver.target = stmt.target

\* p1 and p2 of the Crs are generators: neither is the identity
GeneratorsCrs == gcrs.p1 # 0 /\ gcrs.p2 # 0

\* C2: completeness.  Whatever Crs Crs::rand gave, whatever a, y, x, b prove
\* was given and whatever its rng yielded, verify accepts the proof prove
\* returned for the target sum_j y_j*A_j + sum_i b_i*x_i.
C2_Completeness ==
    pst = "proved" => verify(gcrs, stmt.a, stmt.b, stmt.target, prf) = "true"

\* C2 happens: a proof of a statement with non-identity a and target and
\* non-zero b, made under a Crs of generators, was verified and accepted.
C2_Witness ==
    /\ pst = "proved"
    /\ VerifiedAsProved
    /\ ver.res = "true"
    /\ GeneratorsCrs
    /\ Len(stmt.a) = 1 /\ stmt.a[1] # 0 /\ stmt.b[1] # 0 /\ stmt.target # 0
    /\ \A i \in 1 .. 2 : prf.c.a[1][i] # 0 /\ prf.d.a[1][i] # 0 /\ prf.theta.a[1][i] # 0

\* C3: randomize preserves validity.  In every call of randomize on the proof
\* held (made by prove or by earlier calls of randomize), for every target the
\* proof was valid for, the proof returned is valid for that target.
C3_RandomizePreservesValidity ==
    [][nrz' = nrz + 1 =>
         \A target \in G1 :
             verify(gcrs, stmt.a, stmt.b, target, prf) = "true"
                 => verify(gcrs', stmt'.a, stmt'.b, target, prf') = "true"]_vars

\* C3 happens: a proof was randomized into a proof with other c, d, pi and
\* theta (here: not the proof prove gives with the rng of zeros), verified
\* with the statement proved, and accepted.
C3_Witness ==
    /\ pst = "randomized"
    /\ VerifiedAsProved
    /\ ver.res = "true"
    /\ GeneratorsCrs
    /\ Len(stmt.a) = 1 /\ stmt.a[1] # 0 /\ stmt.b[1] # 0 /\ stmt.target # 0
    /\ \A i \in 1 .. 2 : prf.c.a[1][i] # 0 /\ prf.d.a[1][i] # 0 /\ prf.theta.a[1][i] # 0

\* C4: target tampering is rejected.  For a proof prove made (here: of a
\* statement with one witness of each kind), verify with the a and b proved
\* and a target other than the one proved returns false.
C4_TargetTamperingRejected ==
    (/\ pst = "proved"
     /\ plens = <<1, 1, 1, 1>>
     /\ ver # <<>>
     /\ ver.a = stmt.a
     /\ ver.b = stmt.b
     /\ ver.target # stmt.target) => ver.res = "false"

\* sum_k e(da_k, d[k][l]), the change of lhs[1][l] in verify when da is added to a
ShiftByA(da, d, l) ==
    SumSeq([k \in 1 .. Len(da) |-> pairing(da[k], d.a[k][l])])

\* sum_i e(db_i * c[i][j], w_l), w = (v[0,1], v[1,1] + p2): the change of
\* lhs[j][l] in verify when db is added to b
ShiftByB(db, c, crs, j, l) ==
    SumSeq([i \in 1 .. Len(db) |->
               pairing(GMul(c.a[i][j], db[i]),
                       IF l = 1 THEN crs.v.a[1][2] ELSE GAdd(crs.v.a[2][2], crs.p2))])

\* the entry-wise difference v - w of two vectors of one length
VecSub(v, w) == [k \in 1 .. Len(v) |-> GSub(v[k], w[k])]

\* verify was called on the proof prove made, with only a replaced (by
\* another vector of the same length)
TamperedA ==
    /\ pst = "proved"
    /\ ver # <<>>
    /\ ver.b = stmt.b
    /\ ver.target = stmt.target
    /\ Len(ver.a) = Len(stmt.a)
    /\ ver.a # stmt.a

\* verify was called on the proof prove made, with only b replaced (by
\* another vector of the same length)
TamperedB ==
    /\ pst = "proved"
    /\ ver # <<>>
    /\ ver.a = stmt.a
    /\ ver.target = stmt.target
    /\ Len(ver.b) = Len(stmt.b)
    /\ ver.b # stmt.b

\* C5 as stated, for a Crs of generators: verify with a replaced, or with b
\* replaced, returns false.
C5_VectorTamperingRejected ==
    (GeneratorsCrs /\ (TamperedA \/ TamperedB)) => ver.res = "false"

\* C5 amended: verify with a replaced by a' returns false exactly when
\* sum_k e(a'_k - a_k, d[k][l]) is not the identity for one of the two columns
\* l of the commitment d, and true otherwise; with b replaced by b', false
\* exactly when sum_i e((b'_i - b_i) * c[i][j], w_l) is not the identity for
\* some columns j of c and l of w = (v[0,1], v[1,1] + p2), and true otherwise.
C5_VectorTamperingRejectedIffVisible ==
    /\ TamperedA =>
          ver.res = (IF \E l \in 1 .. 2 :
                           ShiftByA(VecSub(ver.a, stmt.a), prf.d, l) # 0
                     THEN "false" ELSE "true")
    /\ TamperedB =>
          ver.res = (IF \E j \in 1 .. 2, l \in 1 .. 2 :
                           ShiftByB(VecSub(ver.b, stmt.b), prf.c, gcrs, j, l) # 0
                     THEN "false" ELSE "true")

\* C5 happens, both ways: under a Crs of generators, verify with a replaced
\* was called on a proof whose d is not the identity, and rejected; or it was
\* called on a proof whose d is the identity, and accepted.
C5_Witness ==
    /\ GeneratorsCrs
    /\ TamperedA
    /\ \/ ver.res = "false" /\ prf.d.a[1][1] # 0
       \/ ver.res = "true" /\ prf.d.a[1][1] = 0 /\ prf.d.a[1][2] = 0

\* C6: prove returns a Proof exactly when len(x) = len(a) and
\* len(y) = len(b), whatever the two lengths, and aborts otherwise.
C6_ProvePrecondition ==
    plens # <<>> =>
        ((pst # "panic") <=> (plens[3] = plens[1] /\ plens[2] = plens[4]))

\* C7 as stated: verify returns true or false for every a, b, target and
\* Proof (here: a Proof of a statement with one witness of each kind), and
\* never aborts.
C7_VerifyTotal ==
    (ver # <<>> /\ plens = <<1, 1, 1, 1>>) => ver.res \in {"true", "false"}

\* C7 amended: verify aborts exactly when len(a) is not the number of rows of
\* the proof's d or len(b) is not the number of rows of its c; for every other
\* a, b, target and proof it returns true or false (false for a proof that is
\* not valid).
C7_VerifyTotalOnMatchingLengths ==
    ver # <<>> =>
        /\ ver.res \in {"true", "false", "panic"}
        /\ (ver.res = "panic")
              <=> (Len(ver.a) # prf.d.nr \/ Len(ver.b) # prf.c.nr)

\* C7 happens: verify was called with vectors of the lengths of the proof's
\* commitments and a target the proof is not valid for, and returned false.
C7_Witness ==
    /\ ver # <<>>
    /\ Len(ver.a) = prf.d.nr
    /\ Len(ver.b) = prf.c.nr
    /\ prf.c.nr = 1
    /\ ver.target # stmt.target
    /\ ver.res = "false"

-----------------------------------------------------------------------------
(* encoding and decoding: properties                                       *)

\* the pairs of points, as ciphertexts given to decrypt
AllCts == G1 \X G1

\* two encryption keys encrypt alike
SameEncryption(ek1, ek2) ==
    \A m \in G1, r \in Fr : encrypt(ek1, m, r) = encrypt(ek2, m, r)

\* two decryption keys decrypt alike
SameDecryption(sk1, sk2) ==
    \A ct \in AllCts : decrypt(sk1, ct) = decrypt(sk2, ct)

\* C11: serialization round trip.  Deserializing the bytes that serializing
\* an EncryptKey, a DecryptKey or a Ciphertext gave succeeds and returns a
\* value equal to it field by field; a decoded key encrypts and decrypts as
\* the original does.
C11_SerdeRoundTrip ==
    (call.op = "deserialized" /\ call.sent) =>
        /\ call.res.ok
        /\ call.res.v = call.v
        /\ call.kind = "EncryptKey" => SameEncryption(call.res.v, call.v)
        /\ call.kind \in {"DecryptKey", "algorithm::DecryptKey"} =>
              /\ SameDecryption(call.res.v, call.v)
              /\ SameEncryption(call.res.v.encrypt_key, call.v.encrypt_key)

\* C11 happens: a DecryptKey with a non-zero secret and a non-identity
\* generator was serialized and the bytes deserialized into an equal key.
C11_Witness ==
    /\ call.op = "deserialized"
    /\ call.sent
    /\ call.kind = "DecryptKey"
    /\ call.v.secret # 0
    /\ call.v.encrypt_key.generator # 0
    /\ call.v.encrypt_key.y # call.v.encrypt_key.generator
    /\ call.res.ok
    /\ call.res.v = call.v

\* the invariant of a DecryptKey: encrypt_key.y = encrypt_key.generator * secret
KeyInvariant(sk) ==
    sk.encrypt_key.y = GMul(sk.encrypt_key.generator, sk.secret)

\* C12: every DecryptKey that DecryptKey::new returns, and every DecryptKey
\* that decoding a byte sequence returns, satisfies
\* encrypt_key.y = encrypt_key.generator * secret.
C12_KeyInvariant ==
    (/\ call.op \in {"serialized", "received", "deserialized"}
     /\ call.kind \in {"DecryptKey", "algorithm::DecryptKey"}) =>
        /\ call.sent => KeyInvariant(call.v)
        /\ (call.op = "deserialized" /\ call.res.ok) => KeyInvariant(call.res.v)

-----------------------------------------------------------------------------
(* ElGamal calls outside a session: properties                             *)

\* C13: key mismatch.  For a non-identity generator g, secrets x # x2 and
\* randomness r # 0, decrypting encrypt(m, r) made under DecryptKey::new(g, x)
\* with DecryptKey::new(g, x2) returns a group element, and never m.
C13_KeyMismatch ==
    (/\ call.op = "decrypt_other"
     /\ call.g # 0
     /\ call.x # call.x2
     /\ call.r # 0) =>
        /\ call.res \in G1
        /\ call.res # call.m

\* C13 happens: a non-identity message encrypted under one secret was
\* decrypted under another non-zero secret, and a different element came out.
C13_Witness ==
    /\ call.op = "decrypt_other"
    /\ call.g # 0
    /\ call.x # call.x2
    /\ call.x # 0
    /\ call.x2 # 0
    /\ call.r # 0
    /\ call.m # 0
    /\ call.res \in G1
    /\ call.res # call.m

\* C14: under one key whose generator is not the identity, encrypt is
\* injective in (m, r): the same message with different randomness gives
\* different ciphertexts that both decrypt to the message, and different
\* messages with the same randomness give different ciphertexts.
C14_EncryptInjective ==
    (call.op = "encrypt_twice" /\ call.g # 0) =>
        /\ (call.m1 = call.m2 /\ call.r1 # call.r2) =>
              /\ call.ct1 # call.ct2
              /\ call.dec1 = call.m1
              /\ call.dec2 = call.m1
        /\ (call.m1 # call.m2 /\ call.r1 = call.r2) => call.ct1 # call.ct2
        /\ (<<call.m1, call.r1>> # <<call.m2, call.r2>>) => call.ct1 # call.ct2

\* C14 happens: one non-identity message was encrypted twice with different
\* non-zero randomness under a key with a non-zero secret, the ciphertexts
\* differ and both were decrypted to the message.
C14_Witness ==
    /\ call.op = "encrypt_twice"
    /\ call.g # 0
    /\ call.x # 0
    /\ call.m1 = call.m2
    /\ call.m1 # 0
    /\ call.r1 # call.r2
    /\ call.r1 # 0
    /\ call.r2 # 0
    /\ call.ct1 # call.ct2
    /\ call.dec1 = call.m1
    /\ call.dec2 = call.m1

\* C15 as stated: decrypting encrypt(m, r) with d1 and d2 added to its
\* points returns a group element other than m (here: for a key with a
\* non-identity generator and a non-zero secret, r # 0, and d1 and d2 other
\* than the identity).
C15_ModifiedNeverDecryptsToM ==
    (/\ call.op = "decrypt_modified"
     /\ call.g # 0 /\ call.x # 0 /\ call.r # 0
     /\ call.d1 # 0 /\ call.d2 # 0) =>
        /\ call.res \in G1
        /\ call.res # call.m

\* C15, amended: decrypting encrypt(m, r) with d1 and d2 added to its points
\* returns the group element m + d2 - d1 * x, which is other than m exactly
\* when d2 # d1 * x.
C15_ModifiedDecryptsToShiftedM ==
    call.op = "decrypt_modified" =>
        /\ call.res \in G1
        /\ call.res = GAdd(call.m, GSub(call.d2, GMul(call.d1, call.x)))
        /\ (call.res # call.m) <=> (call.d2 # GMul(call.d1, call.x))

\* C15 happens: both points of an encryption of a non-identity message were
\* changed, and decrypt returned an element other than the message.
C15_Witness ==
    /\ call.op = "decrypt_modified"
    /\ call.g # 0
    /\ call.x # 0
    /\ call.r # 0
    /\ call.m # 0
    /\ call.d1 # 0
    /\ call.d2 # 0
    /\ call.modified_ct[1] # call.ct[1]
    /\ call.modified_ct[2] # call.ct[2]
    /\ call.res \in G1
    /\ call.res # call.m

-----------------------------------------------------------------------------
(* byte layout: properties                                                 *)

\* the buffer a type's Serialize filled: the bytes after bincode's length
Buffer == Drop(call.bytes, SizeLen)

\* compressed(p) of a point and compressed(x) of a scalar, byte by byte
CompressedPoint(p) == IF p = 0 THEN <<192, 0>> ELSE <<128, p>>
CompressedScalar(x) == <<x>>

\* the u64 length n < 256 as bincode writes it
Length(n) == <<n, 0, 0, 0, 0, 0, 0, 0>>

\* C16 as stated: the buffer of an EncryptKey is compressed(generator) ++
\* compressed(y), that of a DecryptKey compressed(secret) ++
\* compressed(generator) ++ compressed(y), that of a Ciphertext
\* compressed(A) ++ compressed(B), with no other field, tag or length prefix
\* between the elements.
C16_EncodingsAsStated ==
    call.op = "serialized" =>
        /\ call.kind = "EncryptKey" =>
              Buffer = CompressedPoint(call.v.generator) \o CompressedPoint(call.v.y)
        /\ call.kind \in {"DecryptKey", "algorithm::DecryptKey"} =>
              Buffer = CompressedScalar(call.v.secret)
                          \o CompressedPoint(call.v.encrypt_key.generator)
                          \o CompressedPoint(call.v.encrypt_key.y)
        /\ call.kind = "Ciphertext" =>
              Buffer = CompressedPoint(call.v[1]) \o CompressedPoint(call.v[2])

\* C16, amended: bincode writes the u64 length of the buffer, then the
\* buffer.  The buffer of an EncryptKey is compressed(generator) ++
\* compressed(y); that of a Ciphertext compressed(A) ++ compressed(B); that
\* of a DecryptKey compressed(secret) ++ the bincode encoding of its
\* EncryptKey, which starts with the u64 length of the EncryptKey's buffer;
\* that of an algorithm::DecryptKey has compressed(generator) before the
\* secret.  Decoding reads the elements at the same places, in that order.
C16_Encodings ==
    call.op \in {"serialized", "deserialized"} /\ call.sent =>
        /\ call.bytes = Length(Len(Buffer)) \o Buffer
        /\ call.kind = "EncryptKey" =>
              Buffer = CompressedPoint(call.v.generator) \o CompressedPoint(call.v.y)
        /\ call.kind = "Ciphertext" =>
              Buffer = CompressedPoint(call.v[1]) \o CompressedPoint(call.v[2])
        /\ call.kind = "DecryptKey" =>
              Buffer = CompressedScalar(call.v.secret)
                          \o Length(2 * SizeG)
                          \o CompressedPoint(call.v.encrypt_key.generator)
                          \o CompressedPoint(call.v.encrypt_key.y)
        /\ call.kind = "algorithm::DecryptKey" =>
              Buffer = CompressedPoint(call.v.generator)
                          \o CompressedScalar(call.v.secret)
                          \o Length(2 * SizeG)
                          \o CompressedPoint(call.v.encrypt_key.generator)
                          \o CompressedPoint(call.v.encrypt_key.y)
        /\ (call.op = "deserialized" /\ call.kind = "DecryptKey") =>
              /\ call.res.ok
              /\ CompressedScalar(call.res.v.secret) = SubSeq(Buffer, 1, SizeFr)
              /\ CompressedPoint(call.res.v.encrypt_key.generator)
                    = SubSeq(Buffer, SizeFr + SizeLen + 1, SizeFr + SizeLen + SizeG)
              /\ CompressedPoint(call.res.v.encrypt_key.y)
                    = SubSeq(Buffer, SizeFr + SizeLen + SizeG + 1,
                             SizeFr + SizeLen + 2 * SizeG)

\* C16 happens: a DecryptKey with a non-zero secret, a non-identity
\* generator and y other than the generator was serialized into 21 bytes
\* that hold a length at the start and a second one after the secret, and
\* the bytes were deserialized.
C16_Witness ==
    /\ call.op = "deserialized"
    /\ call.sent
    /\ call.kind = "DecryptKey"
    /\ call.v.secret \notin {0, 1}
    /\ call.v.encrypt_key.generator # 0
    /\ Len(call.bytes) = 2 * SizeLen + SizeFr + 2 * SizeG
    /\ call.bytes[1] = SizeLen + SizeFr + 2 * SizeG
    /\ call.bytes[SizeLen + SizeFr + 1] = 2 * SizeG
    /\ call.res.ok

-----------------------------------------------------------------------------
(* NIZK: shapes of a Proof                                                 *)

\* M is a matrix of nr rows and nc columns
HasShape(M, nr, nc) == M.nr = nr /\ M.nc = nc

\* m, the number of group witnesses x, and n, the number of scalar witnesses
\* y, that prove was given
NumX == plens[3]
NumY == plens[2]

\* C17 as stated: a Proof from prove or randomize has c of shape m x 2, d of
\* shape n x 2, and pi and theta of shape 1 x 2 (here: for m = n = 1).
C17_ProofShapesAsStated ==
    (pst \in {"proved", "randomized"} /\ plens = <<1, 1, 1, 1>>) =>
        /\ HasShape(prf.c, NumX, 2)
        /\ HasShape(prf.d, NumY, 2)
        /\ HasShape(prf.pi, 1, 2)
        /\ HasShape(prf.theta, 1, 2)

\* C17, amended: a Proof from prove or randomize has c of shape m x 2, d of
\* shape n x 2, pi of shape 2 x 2 and theta of shape 1 x 2; randomize
\* returns every component in the shape it had.
C17_ProofShapes ==
    pst \in {"proved", "randomized"} =>
        /\ HasShape(prf.c, NumX, 2)
        /\ HasShape(prf.d, NumY, 2)
        /\ HasShape(prf.pi, 2, 2)
        /\ HasShape(prf.theta, 1, 2)
        /\ \A i \in 1 .. NumX : Len(prf.c.a[i]) = 2
        /\ \A i \in 1 .. NumY : Len(prf.d.a[i]) = 2
        /\ Len(prf.pi.a) = 2 /\ Len(prf.pi.a[1]) = 2 /\ Len(prf.pi.a[2]) = 2
        /\ Len(prf.theta.a) = 1 /\ Len(prf.theta.a[1]) = 2

\* C17 happens: a proof of a statement with one witness of each kind was
\* randomized, and the proof returned has c, d, theta of one row and pi of two.
C17_Witness ==
    /\ pst = "randomized"
    /\ nrz >= 1
    /\ plens = <<1, 1, 1, 1>>
    /\ HasShape(prf.c, 1, 2)
    /\ HasShape(prf.d, 1, 2)
    /\ HasShape(prf.pi, 2, 2)
    /\ HasShape(prf.theta, 1, 2)

-----------------------------------------------------------------------------
(* NIZK calls outside a session: properties                                *)

\* every entry of the matrix of scalars M is non-zero
AllNonZero(M) == \A i \in 1 .. M.nr : \A j \in 1 .. M.nc : M.a[i][j] # 0

\* the matrix of the shape of M whose entries are all the identity
ZeroLike(M) == from_elem(M.nr, M.nc, 0)

\* the proof randomized was made by prove for a statement with one witness
\* of each kind, none the identity or zero, under a Crs of generators, and
\* verify accepts it
RandomizedValidProof ==
    /\ call.op = "randomize"
    /\ Len(call.a) = 1
    /\ call.a[1] # 0 /\ call.y[1] # 0 /\ call.x[1] # 0 /\ call.b[1] # 0
    /\ call.crs.p1 # 0 /\ call.crs.p2 # 0
    /\ verify(call.crs, call.a, call.b,
              Target(call.a, call.y, call.x, call.b), call.p) = "true"

\* C18 as stated: when randomize draws scalars R', S', T' that are all
\* non-zero, each of c, d, pi and theta of the proof it returns differs from
\* that of the proof it was given.
C18_RandomizeChangesAll ==
    (/\ RandomizedValidProof
     /\ AllNonZero(call.r2) /\ AllNonZero(call.s2) /\ AllNonZero(call.t2)) =>
        /\ call.q.c # call.p.c
        /\ call.q.d # call.p.d
        /\ call.q.pi # call.p.pi
        /\ call.q.theta # call.p.theta

\* C18, amended: each component of the proof randomize returns differs from
\* that of the proof it was given exactly when the term randomize adds to it
\* is not all identity: R' u for c, S' v1 for d, R'^T l(b) - T'^T v1 for pi
\* and S'^T l(a) + T' u for theta.
C18_RandomizeChangesWhereTermNonZero ==
    call.op = "randomize" =>
        LET am    == from_shape_vec(Len(call.a), 1, call.a)
            bm    == from_shape_vec(Len(call.b), 1, call.b)
            ru    == scalar_matmul_g1(call.r2, call.crs.u)
            sv    == scalar_matmul_g2(call.s2, v1(call.crs))
            terms == proof(call.crs, call.r2, call.s2, call.t2, am, bm)
        IN  /\ (call.q.c # call.p.c) <=> (ru # ZeroLike(ru))
            /\ (call.q.d # call.p.d) <=> (sv # ZeroLike(sv))
            /\ (call.q.pi # call.p.pi) <=> (terms[1] # ZeroLike(terms[1]))
            /\ (call.q.theta # call.p.theta) <=> (terms[2] # ZeroLike(terms[2]))

\* C18 happens: a valid proof was randomized with scalars that are all
\* non-zero, and all four components changed.
C18_Witness ==
    /\ RandomizedValidProof
    /\ AllNonZero(call.r2) /\ AllNonZero(call.s2) /\ AllNonZero(call.t2)
    /\ call.q.c # call.p.c
    /\ call.q.d # call.p.d
    /\ call.q.pi # call.p.pi
    /\ call.q.theta # call.p.theta

\* a generator whose k-th draw is the sum of the k-th draws of g1 and g2
SumRng(g1, g2) == [start |-> (g1.start + g2.start) % Q,
                   step  |-> (g1.step + g2.step) % Q]

\* the Proof that the body of prove builds from the witnesses y, x and the
\* scalars r, s, t in place of the ones it draws
ProofFromScalars(crs, r, s, t, a, y, x, b) ==
    LET m  == Len(x)
        n  == Len(y)
        am == from_shape_vec(n, 1, a)
        ym == from_shape_vec(n, 1, y)
        xm == from_shape_vec(m, 1, x)
        bm == from_shape_vec(m, 1, b)
        pt == proof(crs, r, s, t, am, bm)
    IN  [c |-> commit_x(crs, r, xm), d |-> commit_y(crs, s, ym),
         pi |-> pt[1], theta |-> pt[2]]

\* C19: the proof that randomize returns, given the proof prove built from
\* the witnesses (y, x) with scalars (r, s, t) and drawing scalars
\* (r2, s2, t2), is component for component the proof prove builds from the
\* same witnesses with scalars (r + r2, s + s2, t + t2); randomize is given
\* the proof, the Crs, a and b only, never the witnesses.
C19_RandomizeAdditive ==
    call.op = "randomize" =>
        /\ call.p = ProofFromScalars(call.crs, call.r, call.s, call.t,
                                     call.a, call.y, call.x, call.b)
        /\ call.q = ProofFromScalars(call.crs, mat_add(call.r, call.r2),
                                     mat_add(call.s, call.s2),
                                     mat_add(call.t, call.t2),
                                     call.a, call.y, call.x, call.b)
        /\ call.q = prove(SumRng(call.rng, call.rng2), call.crs,
                          call.a, call.y, call.x, call.b)

\* C19 happens: a proof of a statement with one witness of each kind, none
\* the identity or zero, was randomized with scalars that are all non-zero
\* into a proof other than the one given.
C19_Witness ==
    /\ RandomizedValidProof
    /\ AllNonZero(call.r) /\ AllNonZero(call.s) /\ AllNonZero(call.t)
    /\ AllNonZero(call.r2) /\ AllNonZero(call.s2) /\ AllNonZero(call.t2)
    /\ call.q # NoProof
    /\ call.q # call.p

====
